---- MODULE Spec2Model ----
(***************************************************************************)
(* Model of the social-graph and comment-threading routes of dcd-api:     *)
(* follow / unfollow / info (routes/follow.js) and the comment routes     *)
(* create / reply / delete / like.  Every request is a handler instance   *)
(* that runs from one database call (await) to the next; handlers of      *)
(* different requests interleave at those calls.                          *)
(***************************************************************************)
EXTENDS Integers, Sequences, FiniteSets, Bags, TLC

\* ObjectIds a request can name as a user; NoId is an absent field.
UserIds == {"u1", "u2", "u3"}
NoId == "none"

\* Users registered before the requests of the model start, with their role.
Registered == {"u1", "u2"}
RoleOf(u) == IF u = "u2" THEN "admin" ELSE "user"

\* Blogs published before the requests of the model start, with their owner.
BlogIds == {"b1", "b2"}
Published == {"b1"}
OwnerOf(b) == "u1"

\* Number of requests the server handles at the same time.
MaxInflight == 2
Slots == 1..MaxInflight

\* Comment documents ever created, notification blocks ever run to their
\* end (a notification created or an error logged), and saves of one
\* comment document (its __v), within one behaviour of the model.
MaxComments == 2
MaxNotifications == 2
MaxVersion == 2

\* Largest distance of a blog's favoriteCount from 0 at which favorite and
\* unfavorite requests still arrive.
MaxFavoriteCount == 2

VARIABLES db, req

vars == <<db, req>>

----------------------------------------------------------------------------
(* Helpers on arrays (mongoose arrays are sequences, duplicates allowed).  *)

Includes(arr, x) == \E i \in 1..Len(arr) : arr[i] = x

Pull(arr, x) == SelectSeq(arr, LAMBDA e : e # x)

Push(arr, x) == Append(arr, x)

Occurrences(arr, x) == Cardinality({i \in 1..Len(arr) : arr[i] = x})

Elements(arr) == {arr[i] : i \in 1..Len(arr)}

\* arr.findIndex(e => e === x), from 1; 0 stands for -1.
FindIndex(arr, x) ==
    IF Includes(arr, x)
    THEN CHOOSE i \in 1..Len(arr) :
            arr[i] = x /\ \A j \in 1..(i - 1) : arr[j] # x
    ELSE 0

\* arr.splice(i, 1)
Splice(arr, i) == SubSeq(arr, 1, i - 1) \o SubSeq(arr, i + 1, Len(arr))

----------------------------------------------------------------------------
(* The collections: each is a function from the ids of its documents.      *)

NewUser(r) ==
    [role |-> r, following |-> <<>>, followers |-> <<>>, isActive |-> TRUE]

\* findById(id) returns a document, or null when none has the id.
Exists(coll, id) == id \in DOMAIN coll

\* findByIdAndUpdate(id, {$push: {following: x}}): no document, no write.
PushFollowing(d, id, x) ==
    IF Exists(d.User, id)
    THEN [d EXCEPT !.User[id].following = Push(@, x)]
    ELSE d

PushFollowers(d, id, x) ==
    IF Exists(d.User, id)
    THEN [d EXCEPT !.User[id].followers = Push(@, x)]
    ELSE d

PullFollowing(d, id, x) ==
    IF Exists(d.User, id)
    THEN [d EXCEPT !.User[id].following = Pull(@, x)]
    ELSE d

PullFollowers(d, id, x) ==
    IF Exists(d.User, id)
    THEN [d EXCEPT !.User[id].followers = Pull(@, x)]
    ELSE d

----------------------------------------------------------------------------
(* Requests.  actor/role are the JWT payload {userId, role}; arg, cid and  *)
(* blog are the user, comment and blog id of the body or path (0 and NoId  *)
(* when absent); loc is the document the handler holds, newId the id of    *)
(* the document it created; storeOk is whether the store accepts the       *)
(* Notification.create of this request; count is the favoriteCount of the  *)
(* blog document the handler holds; call is a call of the content filter:  *)
(* its arguments and what it returned; isActive is the isActive of the    *)
(* body of a status request.                                               *)

NoData == [followingCount |-> 0, followersCount |-> 0,
           likeCount |-> 0, isLiked |-> FALSE, id |-> 0, isBlocked |-> FALSE,
           viewCount |-> 0]

NoDoc == [id |-> 0, user |-> NoId, blog |-> NoId, parentId |-> 0,
          replyTo |-> NoId, likes |-> <<>>, likeCount |-> 0, v |-> 0]

NoCall == [text |-> <<>>, minLength |-> 0, maxLength |-> 0,
           allowEmpty |-> FALSE, strictMode |-> FALSE,
           isValid |-> FALSE, foundWords |-> <<>>, message |-> ""]

Request(op, actor, role, arg) ==
    [op |-> op, pc |-> "start", actor |-> actor, role |-> role, arg |-> arg,
     cid |-> 0, blog |-> NoId, content |-> <<>>, replyTo |-> NoId,
     status |-> 0, msg |-> "", data |-> NoData, loc |-> NoDoc, newId |-> 0,
     storeOk |-> TRUE, count |-> 0, call |-> NoCall, isActive |-> TRUE]

Idle == [Request("idle", NoId, "user", NoId) EXCEPT !.pc = "idle"]

\* The handler returns: its locals are gone, the response stays.
Reply(r, status, msg) ==
    [r EXCEPT !.pc = "done", !.status = status, !.msg = msg,
              !.content = <<>>, !.replyTo = NoId, !.blog = NoId,
              !.loc = NoDoc, !.newId = 0, !.storeOk = TRUE, !.count = 0]

Goto(r, pc) == [r EXCEPT !.pc = pc]

Out(d, r) == [db |-> d, r |-> r]

----------------------------------------------------------------------------
(* POST /api/follow/follow                                                 *)

\* Mutant: the self check is missing.
FollowFindTarget_NoSelfCheck(d, r) ==
    IF r.arg = NoId THEN Out(d, Reply(r, 400, "validation"))
    ELSE IF ~Exists(d.User, r.arg) THEN Out(d, Reply(r, 400, "notfound"))
    ELSE Out(d, Goto(r, "findCurrent"))

\* Joi validation, the self check and User.findById(userId).
FollowFindTarget(d, r) ==
    IF r.arg = NoId THEN Out(d, Reply(r, 400, "validation"))
    ELSE IF r.arg = r.actor THEN Out(d, Reply(r, 400, "self"))
    ELSE IF ~Exists(d.User, r.arg) THEN Out(d, Reply(r, 400, "notfound"))
    ELSE Out(d, Goto(r, "findCurrent"))

\* Mutant: the already-following check is missing.
FollowFindCurrent_NoCheck(d, r) ==
    IF ~Exists(d.User, r.actor) THEN Out(d, Reply(r, 500, "error"))
    ELSE Out(d, Goto(r, "writeFollowing"))

\* User.findById(ctx.state.user.userId) and the already-following check;
\* a missing current user makes .following throw: the catch answers 500.
FollowFindCurrent(d, r) ==
    IF ~Exists(d.User, r.actor) THEN Out(d, Reply(r, 500, "error"))
    ELSE IF Includes(d.User[r.actor].following, r.arg)
         THEN Out(d, Reply(r, 400, "already"))
    ELSE Out(d, Goto(r, "writeFollowing"))

FollowWriteFollowing(d, r) ==
    Out(PushFollowing(d, r.actor, r.arg), Goto(r, "writeFollowers"))

\* Mutant: the second write goes to the current user's document.
FollowWriteFollowers_WrongDoc(d, r) ==
    Out(PushFollowers(d, r.actor, r.actor), Reply(r, 200, "ok"))

FollowWriteFollowers(d, r) ==
    Out(PushFollowers(d, r.arg, r.actor), Reply(r, 200, "ok"))

----------------------------------------------------------------------------
(* POST /api/follow/unfollow                                               *)

UnfollowFindTarget(d, r) ==
    IF r.arg = NoId THEN Out(d, Reply(r, 400, "validation"))
    ELSE IF ~Exists(d.User, r.arg) THEN Out(d, Reply(r, 400, "notfound"))
    ELSE Out(d, Goto(r, "findCurrent"))

\* Mutant: the not-following check is missing.
UnfollowFindCurrent_NoCheck(d, r) ==
    IF ~Exists(d.User, r.actor) THEN Out(d, Reply(r, 500, "error"))
    ELSE Out(d, Goto(r, "writeFollowing"))

UnfollowFindCurrent(d, r) ==
    IF ~Exists(d.User, r.actor) THEN Out(d, Reply(r, 500, "error"))
    ELSE IF ~Includes(d.User[r.actor].following, r.arg)
         THEN Out(d, Reply(r, 400, "notfollowing"))
    ELSE Out(d, Goto(r, "writeFollowing"))

\* Mutant: the first write goes to the target's document.
UnfollowWriteFollowing_WrongDoc(d, r) ==
    Out(PullFollowing(d, r.arg, r.actor), Goto(r, "writeFollowers"))

UnfollowWriteFollowing(d, r) ==
    Out(PullFollowing(d, r.actor, r.arg), Goto(r, "writeFollowers"))

\* Mutant: the second write is missing.
UnfollowWriteFollowers_Skipped(d, r) == Out(d, Reply(r, 200, "ok"))

UnfollowWriteFollowers(d, r) ==
    Out(PullFollowers(d, r.arg, r.actor), Reply(r, 200, "ok"))

----------------------------------------------------------------------------
(* GET /api/follow/info: populate() keeps the entries whose user exists.   *)

Populate(coll, arr) == SelectSeq(arr, LAMBDA e : Exists(coll, e))

Info(d, r) ==
    IF r.actor = NoId THEN Out(d, Reply(r, 400, "validation"))
    ELSE IF ~Exists(d.User, r.actor) THEN Out(d, Reply(r, 404, "notfound"))
    ELSE Out(d,
             [Reply(r, 200, "ok") EXCEPT
                 !.data.followingCount =
                     Len(Populate(d.User, d.User[r.actor].following)),
                 !.data.followersCount =
                     Len(Populate(d.User, d.User[r.actor].followers))])

----------------------------------------------------------------------------
(* utils/contentFilter: texts are sequences of characters.  The two term   *)
(* lists are abridged to the terms the sample texts can contain.           *)

\* '杀死', '暴力' and '死去' of sensitiveWords, '革命' of
\* politicalSensitiveWords.
sensitiveWords == << <<"sha", "si">>, <<"bao", "li">>, <<"si", "qu">> >>
politicalSensitiveWords == << <<"ge", "ming">> >>

Whitespace == {" "}

toLowerCase(text) ==
    [i \in 1..Len(text) |-> IF text[i] = "A" THEN "a" ELSE text[i]]

\* text.includes(word)
Contains(text, word) ==
    \E i \in 0..(Len(text) - Len(word)) :
        SubSeq(text, i + 1, i + Len(word)) = word

\* The terms of a list found in the text, in list order.
FoundIn(list, text) ==
    SelectSeq(list, LAMBDA w : Contains(toLowerCase(text), toLowerCase(w)))

\* Mutant: the stricter list is applied whatever strictMode is.
checkSensitiveContent_AlwaysStrict(text, strictMode) ==
    LET foundWords ==
            IF text = <<>> THEN <<>>
            ELSE FoundIn(sensitiveWords, text)
                 \o FoundIn(politicalSensitiveWords, text)
    IN [isValid |-> foundWords = <<>>, foundWords |-> foundWords]

checkSensitiveContent(text, strictMode) ==
    LET foundWords ==
            IF text = <<>> THEN <<>>
            ELSE FoundIn(sensitiveWords, text)
                 \o (IF strictMode THEN FoundIn(politicalSensitiveWords, text)
                     ELSE <<>>)
    IN [isValid |-> foundWords = <<>>, foundWords |-> foundWords]

\* content.trim().length === 0
IsBlank(text) == \A i \in 1..Len(text) : text[i] \in Whitespace

\* Mutant: the moderation check comes before the length checks.
validateContent_ModerationFirst(content, minLength, maxLength, allowEmpty, strictMode) ==
    IF content = <<>> \/ IsBlank(content)
    THEN [isValid |-> allowEmpty, message |-> IF allowEmpty THEN "" ELSE "empty"]
    ELSE IF ~checkSensitiveContent(content, strictMode).isValid
    THEN [isValid |-> FALSE, message |-> "sensitive"]
    ELSE IF Len(content) < minLength
    THEN [isValid |-> FALSE, message |-> "tooShort"]
    ELSE IF Len(content) > maxLength
    THEN [isValid |-> FALSE, message |-> "tooLong"]
    ELSE [isValid |-> TRUE, message |-> "passed"]

validateContent(content, minLength, maxLength, allowEmpty, strictMode) ==
    IF content = <<>> \/ IsBlank(content)
    THEN [isValid |-> allowEmpty, message |-> IF allowEmpty THEN "" ELSE "empty"]
    ELSE IF Len(content) < minLength
    THEN [isValid |-> FALSE, message |-> "tooShort"]
    ELSE IF Len(content) > maxLength
    THEN [isValid |-> FALSE, message |-> "tooLong"]
    ELSE IF ~checkSensitiveContent(content, strictMode).isValid
    THEN [isValid |-> FALSE, message |-> "sensitive"]
    ELSE [isValid |-> TRUE, message |-> "passed"]

\* The options the comment routes pass to validateContent.
CommentMinLength == 1
CommentMaxLength == 1000

----------------------------------------------------------------------------
(* The Comment and Notification collections.                               *)

\* Comment.create({content, user, blog, parentId, replyTo}); 0 is a null
\* parentId.  likes, likeCount and __v start at the schema defaults.
NewComment(user, blog, parentId, replyTo) ==
    [user |-> user, blog |-> blog, parentId |-> parentId, replyTo |-> replyTo,
     likes |-> <<>>, likeCount |-> 0, v |-> 0]

\* The document as a handler holds it after findById.
Loaded(d, id) ==
    [id |-> id, user |-> d.Comment[id].user, blog |-> d.Comment[id].blog,
     parentId |-> d.Comment[id].parentId, replyTo |-> d.Comment[id].replyTo,
     likes |-> d.Comment[id].likes, likeCount |-> d.Comment[id].likeCount,
     v |-> d.Comment[id].v]

Insert(d, doc) ==
    [d EXCEPT !.Comment = @ @@ (d.nextId :> doc), !.nextId = @ + 1]

NewNotification(type, recipient, sender, comment) ==
    [type |-> type, recipient |-> recipient, sender |-> sender,
     relatedComment |-> comment]

Notify(d, n) == [d EXCEPT !.Notification = @ (+) SetToBag({n})]

\* console.error of a notification block: the exception ends there.
LogError(d) == [d EXCEPT !.errors = @ + 1]

\* Mutant: the filter has no {parentId: id} branch.
Matched_IdOnly(coll, id) == {c \in DOMAIN coll : c = id}

\* The comments a deleteMany({$or: [{_id: id}, {parentId: id}]}) matches.
Matched(coll, id) ==
    {c \in DOMAIN coll : c = id \/ coll[c].parentId = id}

DeleteMany(d, id) ==
    [d EXCEPT !.Comment =
        [c \in DOMAIN d.Comment \ Matched(d.Comment, id) |-> d.Comment[c]]]

----------------------------------------------------------------------------
(* POST /api/comment/create                                                *)

\* Joi validation, validateContent and Blog.findById(blogId).
CreateFindBlog(d, r) ==
    IF r.content = <<>> \/ r.blog = NoId
    THEN Out(d, Reply(r, 400, "validation"))
    ELSE IF ~validateContent(r.content, CommentMinLength, CommentMaxLength,
                             FALSE, TRUE).isValid
    THEN Out(d, Reply(r, 400, "content"))
    ELSE IF ~Exists(d.Blog, r.blog) THEN Out(d, Reply(r, 404, "notfound"))
    ELSE Out(d, Goto([r EXCEPT !.loc.blog = r.blog,
                               !.loc.user = d.Blog[r.blog].user], "create"))

\* Mutant: the owner's own comment enters the notification block too.
CreateInsert_AlwaysNotify(d, r) ==
    Out(Insert(d, NewComment(r.actor, r.blog, 0, NoId)),
        Goto([r EXCEPT !.newId = d.nextId, !.data.id = d.nextId], "notify"))

\* Comment.create and the populate read; the owner's own comment is done.
CreateInsert(d, r) ==
    Out(Insert(d, NewComment(r.actor, r.blog, 0, NoId)),
        IF r.loc.user # r.actor
        THEN Goto([r EXCEPT !.newId = d.nextId, !.data.id = d.nextId], "notify")
        ELSE Reply([r EXCEPT !.data.id = d.nextId], 200, "ok"))

\* Mutant: an exception of the notification block reaches the outer catch.
CreateNotify_Propagates(d, r) ==
    IF ~Exists(d.User, r.actor) \/ ~r.storeOk
    THEN Out(d, Reply(r, 500, "error"))
    ELSE Out(Notify(d, NewNotification("comment", r.loc.user, r.actor, r.newId)),
             Reply(r, 200, "ok"))

\* The notification block: an exception inside it (commenter.username of a
\* missing user, a rejected Notification.create) is logged and dropped.
CreateNotify(d, r) ==
    IF ~Exists(d.User, r.actor) \/ ~r.storeOk
    THEN Out(LogError(d), Reply(r, 200, "ok"))
    ELSE Out(Notify(d, NewNotification("comment", r.loc.user, r.actor, r.newId)),
             Reply(r, 200, "ok"))

----------------------------------------------------------------------------
(* POST /api/comment/reply                                                 *)

ReplyFindParent(d, r) ==
    IF r.content = <<>> \/ r.cid = 0 \/ r.blog = NoId
    THEN Out(d, Reply(r, 400, "validation"))
    ELSE IF ~validateContent(r.content, CommentMinLength, CommentMaxLength,
                             FALSE, TRUE).isValid
    THEN Out(d, Reply(r, 400, "content"))
    ELSE IF ~Exists(d.Comment, r.cid) THEN Out(d, Reply(r, 404, "notfound"))
    ELSE Out(d, Goto([r EXCEPT !.loc = Loaded(d, r.cid)], "create"))

\* Mutant: the replyTo of the body is ignored.
ReplyToUserId_ParentOnly(r) == r.loc.user

\* replyTo || parentComment.user
ReplyToUserId(r) == IF r.replyTo # NoId THEN r.replyTo ELSE r.loc.user

\* Mutant: the reply hangs under the comment it answers.
ReplyParentId_Direct(r) == r.loc.id

\* parentComment.parentId || parentComment._id
ReplyParentId(r) == IF r.loc.parentId # 0 THEN r.loc.parentId ELSE r.loc.id

ReplyInsert(d, r) ==
    Out(Insert(d, NewComment(r.actor, r.loc.blog, ReplyParentId(r),
                             ReplyToUserId(r))),
        IF ReplyToUserId(r) # r.actor
        THEN Goto([r EXCEPT !.newId = d.nextId, !.data.id = d.nextId], "notify")
        ELSE Reply([r EXCEPT !.data.id = d.nextId], 200, "ok"))

ReplyNotify(d, r) ==
    IF ~Exists(d.Blog, r.loc.blog) \/ ~Exists(d.User, r.actor) \/ ~r.storeOk
    THEN Out(LogError(d), Reply(r, 200, "ok"))
    ELSE Out(Notify(d, NewNotification("reply", ReplyToUserId(r), r.actor, r.newId)),
             Reply(r, 200, "ok"))

----------------------------------------------------------------------------
(* DELETE /api/comment/delete/:id                                          *)

\* ctx.state.user._id: the JWT payload is {userId, email, role}, without _id.
TokenId(r) == NoId

\* Mutant: the comments are deleted before the permission check.
DeleteFindComment_DeleteFirst(d, r) ==
    IF ~Exists(d.Comment, r.cid) THEN Out(d, Reply(r, 404, "notfound"))
    ELSE IF d.Comment[r.cid].user # TokenId(r) /\ r.role # "admin"
    THEN Out(DeleteMany(d, r.cid), Reply(r, 403, "forbidden"))
    ELSE Out(d, Goto(r, "deleteMany"))

\* requireCommentAuthor
DeleteFindComment(d, r) ==
    IF ~Exists(d.Comment, r.cid) THEN Out(d, Reply(r, 404, "notfound"))
    ELSE IF d.Comment[r.cid].user # TokenId(r) /\ r.role # "admin"
    THEN Out(d, Reply(r, 403, "forbidden"))
    ELSE Out(d, Goto(r, "deleteMany"))

DeleteDeleteMany(d, r) == Out(DeleteMany(d, r.cid), Reply(r, 200, "ok"))

----------------------------------------------------------------------------
(* POST /api/comment/like                                                  *)

LikeFindComment(d, r) ==
    IF r.cid = 0 THEN Out(d, Reply(r, 400, "validation"))
    ELSE IF ~Exists(d.Comment, r.cid) THEN Out(d, Reply(r, 400, "notfound"))
    ELSE Out(d, Goto([r EXCEPT !.loc = Loaded(d, r.cid)], "save"))

\* Mutant: the author's own like enters the notification block too.
LikeSaveAdded_AlwaysNotify(d, r) ==
    LET n == Len(r.loc.likes) + 1
        liked == [r EXCEPT !.data.likeCount = n, !.data.isLiked = TRUE]
    IN IF ~Exists(d.Comment, r.loc.id) THEN Out(d, Reply(r, 500, "error"))
       ELSE Out([d EXCEPT !.Comment[r.loc.id].likes = Push(@, r.actor),
                          !.Comment[r.loc.id].likeCount =
                              IF n # r.loc.likeCount THEN n ELSE @,
                          !.Comment[r.loc.id].v = @ + 1],
                Goto(liked, "notify"))

\* comment.likes.push(userId); comment.likeCount = comment.likes.length;
\* comment.save() sends {$push: {likes}, $set: {likeCount}, $inc: {__v}}
\* (likeCount only when the assignment changed it); no document: an error.
LikeSaveAdded(d, r) ==
    LET n == Len(r.loc.likes) + 1
        liked == [r EXCEPT !.data.likeCount = n, !.data.isLiked = TRUE]
    IN IF ~Exists(d.Comment, r.loc.id) THEN Out(d, Reply(r, 500, "error"))
       ELSE Out([d EXCEPT !.Comment[r.loc.id].likes = Push(@, r.actor),
                          !.Comment[r.loc.id].likeCount =
                              IF n # r.loc.likeCount THEN n ELSE @,
                          !.Comment[r.loc.id].v = @ + 1],
                IF r.loc.user # r.actor
                THEN Goto(liked, "notify")
                ELSE Reply(liked, 200, "ok"))

\* comment.likes.splice(likeIndex, 1); comment.likeCount = ...; save()
\* sends {$set: {likes, likeCount}, $inc: {__v}} where __v is the loaded
\* one; no document with that version: a VersionError.
LikeSaveRemoved(d, r) ==
    LET likes == Splice(r.loc.likes, FindIndex(r.loc.likes, r.actor))
        n == Len(likes)
    IN IF ~Exists(d.Comment, r.loc.id) THEN Out(d, Reply(r, 500, "error"))
       ELSE IF d.Comment[r.loc.id].v # r.loc.v THEN Out(d, Reply(r, 500, "error"))
       ELSE Out([d EXCEPT !.Comment[r.loc.id].likes = likes,
                          !.Comment[r.loc.id].likeCount =
                              IF n # r.loc.likeCount THEN n ELSE @,
                          !.Comment[r.loc.id].v = @ + 1],
                Reply([r EXCEPT !.data.likeCount = n, !.data.isLiked = FALSE],
                      200, "ok"))

LikeSave(d, r) ==
    IF FindIndex(r.loc.likes, r.actor) = 0
    THEN LikeSaveAdded(d, r)
    ELSE LikeSaveRemoved(d, r)

LikeNotify(d, r) ==
    IF ~Exists(d.User, r.actor) \/ ~Exists(d.Blog, r.loc.blog) \/ ~r.storeOk
    THEN Out(LogError(d), Reply(r, 200, "ok"))
    ELSE Out(Notify(d, NewNotification("like", r.loc.user, r.actor, r.loc.id)),
             Reply(r, 200, "ok"))

----------------------------------------------------------------------------
(* The Blacklist collection (models/Blacklist): a bag of records, with the *)
(* unique index {blocker: 1, blocked: 1}.                                  *)

BlacklistRecord(blocker, blocked) == [blocker |-> blocker, blocked |-> blocked]

\* Blacklist.findOne({blocker, blocked}) returns a record.
FindBlacklist(d, blocker, blocked) ==
    \E b \in BagToSet(d.Blacklist) : b.blocker = blocker /\ b.blocked = blocked

\* blacklistSchema.statics.isBlocked
isBlocked(d, blockerId, blockedId) == FindBlacklist(d, blockerId, blockedId)

\* Mutant: the query has only its first branch.
hasBlacklistRelation_OneWay(d, userId1, userId2) ==
    \E b \in BagToSet(d.Blacklist) : b.blocker = userId1 /\ b.blocked = userId2

\* blacklistSchema.statics.hasBlacklistRelation
hasBlacklistRelation(d, userId1, userId2) ==
    \E b \in BagToSet(d.Blacklist) :
        \/ b.blocker = userId1 /\ b.blocked = userId2
        \/ b.blocker = userId2 /\ b.blocked = userId1

\* The unique index rejects a second record of an ordered pair (E11000).
Duplicate(d, rec) == BagIn(rec, d.Blacklist)

InsertBlacklist(d, rec) == [d EXCEPT !.Blacklist = @ (+) SetToBag({rec})]

\* Mutant: the filter matches the pair in either order.
Matching_EitherWay(d, blocker, blocked) ==
    {b \in BagToSet(d.Blacklist) :
        \/ b.blocker = blocker /\ b.blocked = blocked
        \/ b.blocker = blocked /\ b.blocked = blocker}

\* The records a filter {blocker, blocked} matches.
Matching(d, blocker, blocked) ==
    {b \in BagToSet(d.Blacklist) : b.blocker = blocker /\ b.blocked = blocked}

\* findOneAndDelete removes one matching record.
DeleteOne(d, rec) == [d EXCEPT !.Blacklist = @ (-) SetToBag({rec})]

----------------------------------------------------------------------------
(* POST /api/blacklist/:id                                                 *)

\* The self check and User.findById(blockedId).
BlockFindUser(d, r) ==
    IF r.arg = NoId \/ r.arg = r.actor THEN Out(d, Reply(r, 400, "self"))
    ELSE IF ~Exists(d.User, r.arg) THEN Out(d, Reply(r, 404, "notfound"))
    ELSE Out(d, Goto(r, "findExisting"))

BlockFindExisting(d, r) ==
    IF FindBlacklist(d, r.actor, r.arg) THEN Out(d, Reply(r, 400, "already"))
    ELSE Out(d, Goto(r, "save"))

\* Mutant: a block also ends the blocker's follow of the blocked user.
BlockSave_EndsFollow(d, r) ==
    IF Duplicate(d, BlacklistRecord(r.actor, r.arg))
    THEN Out(d, Reply(r, 500, "error"))
    ELSE Out(PullFollowing(InsertBlacklist(d, BlacklistRecord(r.actor, r.arg)),
                           r.actor, r.arg),
             Reply(r, 200, "ok"))

\* blacklist.save(): a duplicate key error reaches the catch.
BlockSave(d, r) ==
    IF Duplicate(d, BlacklistRecord(r.actor, r.arg))
    THEN Out(d, Reply(r, 500, "error"))
    ELSE Out(InsertBlacklist(d, BlacklistRecord(r.actor, r.arg)),
             Reply(r, 200, "ok"))

----------------------------------------------------------------------------
(* blacklistHelper.blockUser(blockerId, blockedId): actor and arg are its  *)
(* arguments; status 200 stands for {success: true}, 400 and 500 for       *)
(* {success: false} of the check and of the catch.                         *)

blockUserFindExisting(d, r) ==
    IF FindBlacklist(d, r.actor, r.arg) THEN Out(d, Reply(r, 400, "already"))
    ELSE Out(d, Goto(r, "create"))

blockUserCreate(d, r) ==
    IF Duplicate(d, BlacklistRecord(r.actor, r.arg))
    THEN Out(d, Reply(r, 500, "error"))
    ELSE Out(InsertBlacklist(d, BlacklistRecord(r.actor, r.arg)),
             Reply(r, 200, "ok"))

----------------------------------------------------------------------------
(* DELETE /api/blacklist/:id and blacklistHelper.unblockUser               *)

\* Blacklist.findOneAndDelete({blocker, blocked}) is one store operation.
UnblockDelete(d, r) ==
    IF r.arg = NoId THEN Out(d, Reply(r, 400, "validation"))
    ELSE IF Matching(d, r.actor, r.arg) = {}
    THEN Out(d, Reply(r, 404, "notfound"))
    ELSE Out(DeleteOne(d, CHOOSE b \in Matching(d, r.actor, r.arg) : TRUE),
             Reply(r, 200, "ok"))

unblockUserDelete(d, r) ==
    IF Matching(d, r.actor, r.arg) = {}
    THEN Out(d, Reply(r, 404, "notfound"))
    ELSE Out(DeleteOne(d, CHOOSE b \in Matching(d, r.actor, r.arg) : TRUE),
             Reply(r, 200, "ok"))

----------------------------------------------------------------------------
(* GET /api/blacklist/check/:id                                            *)

Check(d, r) ==
    Out(d, [Reply(r, 200, "ok") EXCEPT
               !.data.isBlocked = hasBlacklistRelation(d, r.actor, r.arg)])

----------------------------------------------------------------------------
(* The Favorite collection: a bag of records, with the unique index        *)
(* {user: 1, blog: 1}.                                                     *)

FavoriteRecord(user, blog) == [user |-> user, blog |-> blog]

\* Favorite.findOne({user, blog}) returns a record.
FindFavorite(d, user, blog) == BagIn(FavoriteRecord(user, blog), d.Favorite)

\* blog.save() after an assignment to favoriteCount: {$set: {favoriteCount}}.
SaveFavoriteCount(d, blog, n) == [d EXCEPT !.Blog[blog].favoriteCount = n]

----------------------------------------------------------------------------
(* POST /api/blogs/favorite/:id; blog is the path parameter.               *)

FavoriteFindBlog(d, r) ==
    IF ~Exists(d.Blog, r.blog) THEN Out(d, Reply(r, 404, "notfound"))
    ELSE Out(d, Goto([r EXCEPT !.count = d.Blog[r.blog].favoriteCount],
                     "findExisting"))

\* An existing favorite answers 200 with success: false.
FavoriteFindExisting(d, r) ==
    IF FindFavorite(d, r.actor, r.blog) THEN Out(d, Reply(r, 200, "already"))
    ELSE Out(d, Goto(r, "saveBlog"))

\* blog.favoriteCount += 1; await blog.save()
FavoriteSaveBlog(d, r) ==
    IF ~Exists(d.Blog, r.blog) THEN Out(d, Reply(r, 500, "error"))
    ELSE Out(SaveFavoriteCount(d, r.blog, r.count + 1),
             Goto(r, "saveFavorite"))

\* await favorite.save(): a duplicate key error reaches the catch.
FavoriteSaveFavorite(d, r) ==
    IF FindFavorite(d, r.actor, r.blog) THEN Out(d, Reply(r, 500, "error"))
    ELSE Out([d EXCEPT !.Favorite =
                  @ (+) SetToBag({FavoriteRecord(r.actor, r.blog)})],
             Reply(r, 200, "ok"))

----------------------------------------------------------------------------
(* POST /api/blogs/unfavorite/:id                                          *)

\* Favorite.findOneAndDelete({user, blog})
UnfavoriteDelete(d, r) ==
    IF ~FindFavorite(d, r.actor, r.blog) THEN Out(d, Reply(r, 404, "notfound"))
    ELSE Out([d EXCEPT !.Favorite =
                  @ (-) SetToBag({FavoriteRecord(r.actor, r.blog)})],
             Goto(r, "findBlog"))

\* Blog.findById(result.blog)
UnfavoriteFindBlog(d, r) ==
    IF ~Exists(d.Blog, r.blog) THEN Out(d, Reply(r, 200, "ok"))
    ELSE Out(d, Goto([r EXCEPT !.count = d.Blog[r.blog].favoriteCount],
                     "saveBlog"))

\* blog.favoriteCount -= 1; await blog.save()
UnfavoriteSaveBlog(d, r) ==
    IF ~Exists(d.Blog, r.blog) THEN Out(d, Reply(r, 500, "error"))
    ELSE Out(SaveFavoriteCount(d, r.blog, r.count - 1), Reply(r, 200, "ok"))

----------------------------------------------------------------------------
(* GET /api/blogs/detail/:id; blog is the path parameter, count the        *)
(* viewCount of the loaded document.                                       *)

\* Blog.findById(id)
DetailFindBlog(d, r) ==
    IF ~Exists(d.Blog, r.blog) THEN Out(d, Reply(r, 404, "notfound"))
    ELSE Out(d, Goto([r EXCEPT !.count = d.Blog[r.blog].viewCount], "inc"))

\* Mutant: the count is written from the loaded document.
DetailInc_FromLoaded(d, r) ==
    Out(IF Exists(d.Blog, r.blog)
        THEN [d EXCEPT !.Blog[r.blog].viewCount = r.count + 1]
        ELSE d,
        [Reply(r, 200, "ok") EXCEPT !.data.viewCount = r.count + 1])

\* Blog.updateOne({_id}, {$inc: {viewCount: 1}}); the response carries the
\* loaded viewCount plus one.
DetailInc(d, r) ==
    Out(IF Exists(d.Blog, r.blog)
        THEN [d EXCEPT !.Blog[r.blog].viewCount = @ + 1]
        ELSE d,
        [Reply(r, 200, "ok") EXCEPT !.data.viewCount = r.count + 1])

----------------------------------------------------------------------------
(* PUT /api/blogs/:id; arg is the id claim of the token: the user's id in  *)
(* a token issued at registration, absent in one issued at login.          *)

\* requireAuthor
UpdateFindBlog(d, r) ==
    IF ~Exists(d.Blog, r.blog) THEN Out(d, Reply(r, 404, "notfound"))
    ELSE IF r.role # "admin" /\ d.Blog[r.blog].user # r.arg
    THEN Out(d, Reply(r, 403, "forbidden"))
    ELSE Out(d, Goto(r, "update"))

\* Blog.findByIdAndUpdate(id, value) with the validated body, which has
\* only title, content, tags and blogImage; the body's title is "new".
UpdateWrite(d, r) ==
    Out(IF Exists(d.Blog, r.blog)
        THEN [d EXCEPT !.Blog[r.blog].title = "new"]
        ELSE d,
        Reply(r, 200, "ok"))

----------------------------------------------------------------------------
(* POST /api/auth/email-login; actor is the user of the body's email, arg  *)
(* the body's code.  A verification record is kept under its code.         *)

Codes == {"c1", "c3"}

\* The user whose email a code was sent to.
EmailOf(c) == IF c = "c1" THEN "u1" ELSE "u3"

\* EmailVerification.findOne({email, code, type: 'login', isUsed: false})
LoginFindVerification(d, r) ==
    IF r.arg \notin DOMAIN d.Verification
       \/ d.Verification[r.arg].email # r.actor
       \/ d.Verification[r.arg].isUsed
    THEN Out(d, Reply(r, 400, "code"))
    ELSE Out(d, Goto(r, "findUser"))

\* User.findOne({email}) and, for a stored user, the isActive check.
LoginFindUser(d, r) ==
    IF ~Exists(d.User, r.actor) THEN Out(d, Goto(r, "createUser"))
    ELSE IF ~d.User[r.actor].isActive THEN Out(d, Reply(r, 403, "disabled"))
    ELSE Out(d, Goto(r, "markUsed"))

\* user.save() of the new user, with the unique index on email.
LoginCreateUser(d, r) ==
    IF Exists(d.User, r.actor) THEN Out(d, Reply(r, 500, "error"))
    ELSE Out([d EXCEPT !.User = @ @@ (r.actor :> NewUser("user"))],
             Goto(r, "markUsed"))

\* verification.isUsed = true; await verification.save()
LoginMarkUsed(d, r) ==
    IF r.arg \notin DOMAIN d.Verification THEN Out(d, Reply(r, 500, "error"))
    ELSE Out([d EXCEPT !.Verification[r.arg].isUsed = TRUE],
             Goto(r, "saveUser"))

\* user.lastLoginAt = new Date(); await user.save(); the token is signed.
LoginSaveUser(d, r) ==
    IF ~Exists(d.User, r.actor) THEN Out(d, Reply(r, 500, "error"))
    ELSE Out(d, Reply(r, 200, "ok"))

----------------------------------------------------------------------------
(* The admin routes on users (routes/user.js); arg is the path's user id.  *)

Remove(d, id) == [d EXCEPT !.User = [u \in DOMAIN @ \ {id} |-> @[u]]]

\* requireAdmin of PUT /:id/status and DELETE /:id:
\* User.findById(ctx.user.userId) and the role of the stored user.
RequireAdmin(d, r, next) ==
    IF ~Exists(d.User, r.actor) \/ d.User[r.actor].role # "admin"
    THEN Out(d, Reply(r, 403, "forbidden"))
    ELSE Out(d, Goto(r, next))

\* PUT /:id/status: User.findByIdAndUpdate(id, {isActive})
StatusUpdate(d, r) ==
    IF ~Exists(d.User, r.arg) THEN Out(d, Reply(r, 404, "notfound"))
    ELSE Out([d EXCEPT !.User[r.arg].isActive = r.isActive],
             Reply(r, 200, "ok"))

\* DELETE /:id: User.findByIdAndDelete(id)
DeleteUser(d, r) ==
    IF ~Exists(d.User, r.arg) THEN Out(d, Reply(r, 404, "notfound"))
    ELSE Out(Remove(d, r.arg), Reply(r, 200, "ok"))

\* POST /restore/user/:id: the role check on the token and
\* User.findByIdAndUpdate(id, {isActive: true}).
Restore(d, r) ==
    IF r.role # "admin" THEN Out(d, Reply(r, 403, "forbidden"))
    ELSE IF ~Exists(d.User, r.arg) THEN Out(d, Reply(r, 404, "notfound"))
    ELSE Out([d EXCEPT !.User[r.arg].isActive = TRUE], Reply(r, 200, "ok"))

\* DELETE /permanent/user/:id: the role check on the token and
\* User.findOne({_id: id, isActive: false}).
PermanentFind(d, r) ==
    IF r.role # "admin" THEN Out(d, Reply(r, 403, "forbidden"))
    ELSE IF ~Exists(d.User, r.arg) \/ d.User[r.arg].isActive
    THEN Out(d, Reply(r, 404, "notfound"))
    ELSE Out(d, Goto(r, "delete"))

\* User.findByIdAndDelete(id)
PermanentDelete(d, r) ==
    Out(IF Exists(d.User, r.arg) THEN Remove(d, r.arg) ELSE d,
        Reply(r, 200, "ok"))

----------------------------------------------------------------------------
(* One step of a handler: from one database call to the next.              *)

Step(d, r) ==
    CASE r.op = "follow" /\ r.pc = "start" -> FollowFindTarget(d, r)
      [] r.op = "follow" /\ r.pc = "findCurrent" -> FollowFindCurrent(d, r)
      [] r.op = "follow" /\ r.pc = "writeFollowing" -> FollowWriteFollowing(d, r)
      [] r.op = "follow" /\ r.pc = "writeFollowers" -> FollowWriteFollowers(d, r)
      [] r.op = "unfollow" /\ r.pc = "start" -> UnfollowFindTarget(d, r)
      [] r.op = "unfollow" /\ r.pc = "findCurrent" -> UnfollowFindCurrent(d, r)
      [] r.op = "unfollow" /\ r.pc = "writeFollowing" -> UnfollowWriteFollowing(d, r)
      [] r.op = "unfollow" /\ r.pc = "writeFollowers" -> UnfollowWriteFollowers(d, r)
      [] r.op = "info" /\ r.pc = "start" -> Info(d, r)
      [] r.op = "create" /\ r.pc = "start" -> CreateFindBlog(d, r)
      [] r.op = "create" /\ r.pc = "create" -> CreateInsert(d, r)
      [] r.op = "create" /\ r.pc = "notify" -> CreateNotify(d, r)
      [] r.op = "reply" /\ r.pc = "start" -> ReplyFindParent(d, r)
      [] r.op = "reply" /\ r.pc = "create" -> ReplyInsert(d, r)
      [] r.op = "reply" /\ r.pc = "notify" -> ReplyNotify(d, r)
      [] r.op = "delete" /\ r.pc = "start" -> DeleteFindComment(d, r)
      [] r.op = "delete" /\ r.pc = "deleteMany" -> DeleteDeleteMany(d, r)
      [] r.op = "like" /\ r.pc = "start" -> LikeFindComment(d, r)
      [] r.op = "like" /\ r.pc = "save" -> LikeSave(d, r)
      [] r.op = "like" /\ r.pc = "notify" -> LikeNotify(d, r)
      [] r.op = "block" /\ r.pc = "start" -> BlockFindUser(d, r)
      [] r.op = "block" /\ r.pc = "findExisting" -> BlockFindExisting(d, r)
      [] r.op = "block" /\ r.pc = "save" -> BlockSave(d, r)
      [] r.op = "blockUser" /\ r.pc = "start" -> blockUserFindExisting(d, r)
      [] r.op = "blockUser" /\ r.pc = "create" -> blockUserCreate(d, r)
      [] r.op = "unblock" /\ r.pc = "start" -> UnblockDelete(d, r)
      [] r.op = "unblockUser" /\ r.pc = "start" -> unblockUserDelete(d, r)
      [] r.op = "check" /\ r.pc = "start" -> Check(d, r)
      [] r.op = "favorite" /\ r.pc = "start" -> FavoriteFindBlog(d, r)
      [] r.op = "favorite" /\ r.pc = "findExisting" -> FavoriteFindExisting(d, r)
      [] r.op = "favorite" /\ r.pc = "saveBlog" -> FavoriteSaveBlog(d, r)
      [] r.op = "favorite" /\ r.pc = "saveFavorite" -> FavoriteSaveFavorite(d, r)
      [] r.op = "unfavorite" /\ r.pc = "start" -> UnfavoriteDelete(d, r)
      [] r.op = "unfavorite" /\ r.pc = "findBlog" -> UnfavoriteFindBlog(d, r)
      [] r.op = "unfavorite" /\ r.pc = "saveBlog" -> UnfavoriteSaveBlog(d, r)
      [] r.op = "login" /\ r.pc = "start" -> LoginFindVerification(d, r)
      [] r.op = "login" /\ r.pc = "findUser" -> LoginFindUser(d, r)
      [] r.op = "login" /\ r.pc = "createUser" -> LoginCreateUser(d, r)
      [] r.op = "login" /\ r.pc = "markUsed" -> LoginMarkUsed(d, r)
      [] r.op = "login" /\ r.pc = "saveUser" -> LoginSaveUser(d, r)
      [] r.op = "permanent" /\ r.pc = "start" -> PermanentFind(d, r)
      [] r.op = "permanent" /\ r.pc = "delete" -> PermanentDelete(d, r)
      [] OTHER -> Out(d, r)

\* A handler run with no other request between its database calls.
RECURSIVE Run(_, _)
Run(d, r) ==
    IF r.pc \in {"done", "idle"}
    THEN Out(d, r)
    ELSE LET o == Step(d, r) IN Run(o.db, o.r)

Block(d, a, b) == Run(d, Request("block", a, "user", b))

blockUser(d, a, b) == Run(d, Request("blockUser", a, "user", b))

Unblock(d, a, b) == Run(d, Request("unblock", a, "user", b))

unblockUser(d, a, b) == Run(d, Request("unblockUser", a, "user", b))

CheckBlocked(d, a, b) == Run(d, Request("check", a, "user", b))

Follow(d, a, b) == Run(d, Request("follow", a, "user", b))

Unfollow(d, a, b) == Run(d, Request("unfollow", a, "user", b))

GetInfo(d, a) == Run(d, Request("info", a, "user", NoId))

ToggleLike(d, a, c) == Run(d, [Request("like", a, "user", NoId) EXCEPT !.cid = c])

DeleteComment(d, a, role, c) ==
    Run(d, [Request("delete", a, role, NoId) EXCEPT !.cid = c])

----------------------------------------------------------------------------
(* Actions.  A request enters a free slot with its first database call.    *)

Init ==
    /\ db = [User |-> [u \in Registered |-> NewUser(RoleOf(u))],
             Blog |-> [b \in Published |->
                          [user |-> OwnerOf(b), favoriteCount |-> 0,
                           viewCount |-> 0, title |-> "old"]],
             Comment |-> <<>>,
             nextId |-> 1,
             Notification |-> EmptyBag,
             errors |-> 0,
             Blacklist |-> EmptyBag,
             Favorite |-> EmptyBag,
             Verification |->
                 [c \in Codes |-> [email |-> EmailOf(c), isUsed |-> FALSE]]]
    /\ req = [s \in Slots |-> Idle]

Free(s) == req[s].pc \in {"idle", "done"}

\* A token was issued at login to a stored user, with that user's role.
Tokens == DOMAIN db.User

Commit(s, o) ==
    /\ db' = o.db
    /\ req' = [req EXCEPT ![s] = o.r]

FollowStart(s) ==
    /\ Free(s)
    /\ \E a \in Tokens, b \in UserIds \cup {NoId} :
          Commit(s, FollowFindTarget(db, Request("follow", a, db.User[a].role, b)))

FollowFindCurrentStep(s) ==
    /\ req[s].op = "follow"
    /\ req[s].pc = "findCurrent"
    /\ Commit(s, FollowFindCurrent(db, req[s]))

FollowWriteFollowingStep(s) ==
    /\ req[s].op = "follow"
    /\ req[s].pc = "writeFollowing"
    /\ Commit(s, FollowWriteFollowing(db, req[s]))

FollowWriteFollowersStep(s) ==
    /\ req[s].op = "follow"
    /\ req[s].pc = "writeFollowers"
    /\ Commit(s, FollowWriteFollowers(db, req[s]))

UnfollowStart(s) ==
    /\ Free(s)
    /\ \E a \in Tokens, b \in UserIds \cup {NoId} :
          Commit(s, UnfollowFindTarget(db, Request("unfollow", a, db.User[a].role, b)))

UnfollowFindCurrentStep(s) ==
    /\ req[s].op = "unfollow"
    /\ req[s].pc = "findCurrent"
    /\ Commit(s, UnfollowFindCurrent(db, req[s]))

UnfollowWriteFollowingStep(s) ==
    /\ req[s].op = "unfollow"
    /\ req[s].pc = "writeFollowing"
    /\ Commit(s, UnfollowWriteFollowing(db, req[s]))

UnfollowWriteFollowersStep(s) ==
    /\ req[s].op = "unfollow"
    /\ req[s].pc = "writeFollowers"
    /\ Commit(s, UnfollowWriteFollowers(db, req[s]))

InfoRequest(s) ==
    /\ Free(s)
    /\ \E a \in Tokens :
          Commit(s, Info(db, Request("info", a, db.User[a].role, NoId)))

RelNext ==
    \E s \in Slots :
        \/ FollowStart(s)
        \/ FollowFindCurrentStep(s)
        \/ FollowWriteFollowingStep(s)
        \/ FollowWriteFollowersStep(s)
        \/ UnfollowStart(s)
        \/ UnfollowFindCurrentStep(s)
        \/ UnfollowWriteFollowingStep(s)
        \/ UnfollowWriteFollowersStep(s)
        \/ InfoRequest(s)

RelSpec == Init /\ [][RelNext]_vars

----------------------------------------------------------------------------
(* Comment requests.  The guards keep the ids, the notifications and the   *)
(* document versions of a behaviour within the bounds of the model.        *)

\* Sample texts: missing, blank, acceptable, and one with a banned term.
Acceptable == <<"o", "k">>
Contents == {<<>>, <<" ">>, Acceptable, <<"sha", "si">>}

\* Bodies of POST /create: every blog id with an acceptable text, and one
\* body for each way the validation can fail.
CreateBodies ==
    {[blog |-> b, content |-> Acceptable] : b \in BlogIds \cup {NoId}}
        \cup {[blog |-> b, content |-> t] : b \in Published, t \in Contents}

\* Bodies of POST /reply, likewise.
ReplyBodies ==
    {[cid |-> c, blog |-> b, replyTo |-> to, content |-> Acceptable] :
        c \in (1..MaxComments) \cup {0}, b \in Published,
        to \in UserIds \cup {NoId}}
        \cup {[cid |-> 1, blog |-> NoId, replyTo |-> NoId, content |-> Acceptable]}
        \cup {[cid |-> 1, blog |-> b, replyTo |-> NoId, content |-> t] :
                  b \in Published, t \in Contents}

CommentIds == 1..MaxComments

Busy(ops, pcs) ==
    Cardinality({t \in Slots : req[t].op \in ops /\ req[t].pc \in pcs})

RoomForComment ==
    db.nextId + Busy({"create", "reply"}, {"create"}) <= MaxComments

RoomForNotification ==
    BagCardinality(db.Notification) + db.errors
        + Busy({"create", "reply", "like"}, {"create", "save", "notify"})
        < MaxNotifications

RoomForSave(c) ==
    Exists(db.Comment, c) =>
        db.Comment[c].v
            + Cardinality({t \in Slots : req[t].op = "like" /\ req[t].pc = "save"
                                          /\ req[t].loc.id = c})
            < MaxVersion

CreateStart(s) ==
    /\ Free(s)
    /\ RoomForComment
    /\ RoomForNotification
    /\ \E a \in Tokens, body \in CreateBodies :
          Commit(s, CreateFindBlog(db,
              [Request("create", a, db.User[a].role, NoId)
                  EXCEPT !.blog = body.blog, !.content = body.content]))

CreateInsertStep(s) ==
    /\ req[s].op = "create"
    /\ req[s].pc = "create"
    /\ Commit(s, CreateInsert(db, req[s]))

CreateNotifyStep(s) ==
    /\ req[s].op = "create"
    /\ req[s].pc = "notify"
    /\ Commit(s, CreateNotify(db, req[s]))

ReplyStart(s) ==
    /\ Free(s)
    /\ RoomForComment
    /\ RoomForNotification
    /\ \E a \in Tokens, body \in ReplyBodies :
          Commit(s, ReplyFindParent(db,
              [Request("reply", a, db.User[a].role, NoId)
                  EXCEPT !.cid = body.cid, !.blog = body.blog,
                         !.replyTo = body.replyTo, !.content = body.content]))

ReplyInsertStep(s) ==
    /\ req[s].op = "reply"
    /\ req[s].pc = "create"
    /\ Commit(s, ReplyInsert(db, req[s]))

ReplyNotifyStep(s) ==
    /\ req[s].op = "reply"
    /\ req[s].pc = "notify"
    /\ Commit(s, ReplyNotify(db, req[s]))

DeleteStart(s) ==
    /\ Free(s)
    /\ \E a \in Tokens, c \in CommentIds :
          Commit(s, DeleteFindComment(db,
              [Request("delete", a, db.User[a].role, NoId) EXCEPT !.cid = c]))

DeleteManyStep(s) ==
    /\ req[s].op = "delete"
    /\ req[s].pc = "deleteMany"
    /\ Commit(s, DeleteDeleteMany(db, req[s]))

LikeStart(s) ==
    /\ Free(s)
    /\ RoomForNotification
    /\ \E a \in Tokens, c \in CommentIds \cup {0} :
          /\ RoomForSave(c)
          /\ Commit(s, LikeFindComment(db,
                [Request("like", a, db.User[a].role, NoId) EXCEPT !.cid = c]))

LikeSaveStep(s) ==
    /\ req[s].op = "like"
    /\ req[s].pc = "save"
    /\ Commit(s, LikeSave(db, req[s]))

LikeNotifyStep(s) ==
    /\ req[s].op = "like"
    /\ req[s].pc = "notify"
    /\ Commit(s, LikeNotify(db, req[s]))

CommentNext ==
    \E s \in Slots :
        \/ CreateStart(s)
        \/ CreateInsertStep(s)
        \/ CreateNotifyStep(s)
        \/ ReplyStart(s)
        \/ ReplyInsertStep(s)
        \/ ReplyNotifyStep(s)
        \/ DeleteStart(s)
        \/ DeleteManyStep(s)
        \/ LikeStart(s)
        \/ LikeSaveStep(s)
        \/ LikeNotifyStep(s)

CommentSpec == Init /\ [][CommentNext]_vars

\* The requests that only add comments.
ThreadNext ==
    \E s \in Slots :
        \/ CreateStart(s)
        \/ CreateInsertStep(s)
        \/ CreateNotifyStep(s)
        \/ ReplyStart(s)
        \/ ReplyInsertStep(s)
        \/ ReplyNotifyStep(s)

ThreadSpec == Init /\ [][ThreadNext]_vars

\* The store rejects the Notification.create of a request.
CreateNotifyFails(s) ==
    /\ req[s].op = "create"
    /\ req[s].pc = "notify"
    /\ Commit(s, CreateNotify(db, [req[s] EXCEPT !.storeOk = FALSE]))

ReplyNotifyFails(s) ==
    /\ req[s].op = "reply"
    /\ req[s].pc = "notify"
    /\ Commit(s, ReplyNotify(db, [req[s] EXCEPT !.storeOk = FALSE]))

LikeNotifyFails(s) ==
    /\ req[s].op = "like"
    /\ req[s].pc = "notify"
    /\ Commit(s, LikeNotify(db, [req[s] EXCEPT !.storeOk = FALSE]))

\* The requests that notify, with a store that may reject notifications.
LossyNext ==
    \E s \in Slots :
        \/ CreateStart(s)
        \/ CreateInsertStep(s)
        \/ CreateNotifyStep(s)
        \/ CreateNotifyFails(s)
        \/ ReplyStart(s)
        \/ ReplyInsertStep(s)
        \/ ReplyNotifyStep(s)
        \/ ReplyNotifyFails(s)
        \/ LikeStart(s)
        \/ LikeSaveStep(s)
        \/ LikeNotifyStep(s)
        \/ LikeNotifyFails(s)

LossySpec == Init /\ [][LossyNext]_vars

----------------------------------------------------------------------------
(* Blacklist requests, and calls of the helper by server code with the ids *)
(* of two stored users.                                                    *)

BlockStart(s) ==
    /\ Free(s)
    /\ \E a \in Tokens, b \in UserIds :
          Commit(s, BlockFindUser(db, Request("block", a, db.User[a].role, b)))

BlockFindExistingStep(s) ==
    /\ req[s].op = "block"
    /\ req[s].pc = "findExisting"
    /\ Commit(s, BlockFindExisting(db, req[s]))

BlockSaveStep(s) ==
    /\ req[s].op = "block"
    /\ req[s].pc = "save"
    /\ Commit(s, BlockSave(db, req[s]))

blockUserStart(s) ==
    /\ Free(s)
    /\ \E a \in DOMAIN db.User, b \in DOMAIN db.User :
          Commit(s, blockUserFindExisting(db,
              Request("blockUser", a, db.User[a].role, b)))

blockUserCreateStep(s) ==
    /\ req[s].op = "blockUser"
    /\ req[s].pc = "create"
    /\ Commit(s, blockUserCreate(db, req[s]))

UnblockRequest(s) ==
    /\ Free(s)
    /\ \E a \in Tokens, b \in UserIds :
          Commit(s, UnblockDelete(db, Request("unblock", a, db.User[a].role, b)))

unblockUserCall(s) ==
    /\ Free(s)
    /\ \E a \in DOMAIN db.User, b \in DOMAIN db.User :
          Commit(s, unblockUserDelete(db,
              Request("unblockUser", a, db.User[a].role, b)))

CheckRequest(s) ==
    /\ Free(s)
    /\ \E a \in Tokens, b \in UserIds :
          Commit(s, Check(db, Request("check", a, db.User[a].role, b)))

BlockNext ==
    \E s \in Slots :
        \/ BlockStart(s)
        \/ BlockFindExistingStep(s)
        \/ BlockSaveStep(s)
        \/ blockUserStart(s)
        \/ blockUserCreateStep(s)
        \/ UnblockRequest(s)
        \/ unblockUserCall(s)
        \/ CheckRequest(s)

BlockSpec == Init /\ [][BlockNext]_vars

----------------------------------------------------------------------------
(* Favorite requests.                                                      *)

\* Keeps favoriteCount within the bound of the model.
RoomForFavorite ==
    \A b \in DOMAIN db.Blog :
        /\ db.Blog[b].favoriteCount < MaxFavoriteCount
        /\ db.Blog[b].favoriteCount > -MaxFavoriteCount

FavoriteStart(s) ==
    /\ Free(s)
    /\ RoomForFavorite
    /\ \E a \in Tokens, b \in BlogIds :
          Commit(s, FavoriteFindBlog(db,
              [Request("favorite", a, db.User[a].role, NoId) EXCEPT !.blog = b]))

FavoriteFindExistingStep(s) ==
    /\ req[s].op = "favorite"
    /\ req[s].pc = "findExisting"
    /\ Commit(s, FavoriteFindExisting(db, req[s]))

FavoriteSaveBlogStep(s) ==
    /\ req[s].op = "favorite"
    /\ req[s].pc = "saveBlog"
    /\ Commit(s, FavoriteSaveBlog(db, req[s]))

FavoriteSaveFavoriteStep(s) ==
    /\ req[s].op = "favorite"
    /\ req[s].pc = "saveFavorite"
    /\ Commit(s, FavoriteSaveFavorite(db, req[s]))

UnfavoriteStart(s) ==
    /\ Free(s)
    /\ RoomForFavorite
    /\ \E a \in Tokens, b \in BlogIds :
          Commit(s, UnfavoriteDelete(db,
              [Request("unfavorite", a, db.User[a].role, NoId) EXCEPT !.blog = b]))

UnfavoriteFindBlogStep(s) ==
    /\ req[s].op = "unfavorite"
    /\ req[s].pc = "findBlog"
    /\ Commit(s, UnfavoriteFindBlog(db, req[s]))

UnfavoriteSaveBlogStep(s) ==
    /\ req[s].op = "unfavorite"
    /\ req[s].pc = "saveBlog"
    /\ Commit(s, UnfavoriteSaveBlog(db, req[s]))

FavoriteNext ==
    \E s \in Slots :
        \/ FavoriteStart(s)
        \/ FavoriteFindExistingStep(s)
        \/ FavoriteSaveBlogStep(s)
        \/ FavoriteSaveFavoriteStep(s)
        \/ UnfavoriteStart(s)
        \/ UnfavoriteFindBlogStep(s)
        \/ UnfavoriteSaveBlogStep(s)

FavoriteSpec == Init /\ [][FavoriteNext]_vars

----------------------------------------------------------------------------
(* Calls of utils/contentFilter.  The functions are pure: a call takes its *)
(* arguments from the sample texts and options and keeps what it returned; *)
(* a behaviour is one call.                                                *)

MaxLen == 3

\* The characters of the sample texts: those of three banned terms, a
\* letter with an upper case, and a blank.
Alphabet == {"sha", "si", "qu", "ge", "ming", "A", " "}

Texts == UNION {[1..n -> Alphabet] : n \in 0..MaxLen}

MinLengths == {1, 2}
MaxLengths == {2, MaxLen}

AllIdle == \A t \in Slots : req[t].pc = "idle"

Called(op, call) ==
    [Request(op, NoId, "user", NoId) EXCEPT !.pc = "done", !.call = call]

checkSensitiveContentCall(s) ==
    /\ AllIdle
    /\ \E text \in Texts, strictMode \in BOOLEAN :
          LET result == checkSensitiveContent(text, strictMode)
          IN req' = [req EXCEPT ![s] =
                        Called("checkSensitiveContent",
                               [NoCall EXCEPT !.text = text,
                                              !.strictMode = strictMode,
                                              !.isValid = result.isValid,
                                              !.foundWords = result.foundWords])]
    /\ UNCHANGED db

validateContentCall(s) ==
    /\ AllIdle
    /\ \E content \in Texts, minLength \in MinLengths, maxLength \in MaxLengths,
          allowEmpty \in BOOLEAN, strictMode \in BOOLEAN :
          LET result == validateContent(content, minLength, maxLength,
                                        allowEmpty, strictMode)
          IN req' = [req EXCEPT ![s] =
                        Called("validateContent",
                               [NoCall EXCEPT !.text = content,
                                              !.minLength = minLength,
                                              !.maxLength = maxLength,
                                              !.allowEmpty = allowEmpty,
                                              !.strictMode = strictMode,
                                              !.isValid = result.isValid,
                                              !.message = result.message])]
    /\ UNCHANGED db

FilterNext ==
    \E s \in Slots :
        \/ checkSensitiveContentCall(s)
        \/ validateContentCall(s)

FilterSpec == Init /\ [][FilterNext]_vars

----------------------------------------------------------------------------
(* The follow routes and the blacklist routes served together.             *)

SocialNext ==
    \E s \in Slots :
        \/ FollowStart(s)
        \/ FollowFindCurrentStep(s)
        \/ FollowWriteFollowingStep(s)
        \/ FollowWriteFollowersStep(s)
        \/ BlockStart(s)
        \/ BlockFindExistingStep(s)
        \/ BlockSaveStep(s)
        \/ UnblockRequest(s)

SocialSpec == Init /\ [][SocialNext]_vars

----------------------------------------------------------------------------
(* The blog detail, update and favorite routes served together.            *)

MaxViewCount == 2

\* The detail requests that have loaded the blog and not yet counted.
Counting(b) ==
    {s \in Slots : req[s].op = "detail" /\ req[s].pc = "inc" /\ req[s].blog = b}

RoomForView ==
    \A b \in DOMAIN db.Blog :
        db.Blog[b].viewCount + Cardinality(Counting(b)) < MaxViewCount

DetailStart(s) ==
    /\ Free(s)
    /\ RoomForView
    /\ \E b \in BlogIds :
          Commit(s, DetailFindBlog(db,
              [Request("detail", NoId, "user", NoId) EXCEPT !.blog = b]))

DetailIncStep(s) ==
    /\ req[s].op = "detail"
    /\ req[s].pc = "inc"
    /\ Commit(s, DetailInc(db, req[s]))

UpdateStart(s) ==
    /\ Free(s)
    /\ \E a \in Tokens, b \in BlogIds, atLogin \in BOOLEAN :
          Commit(s, UpdateFindBlog(db,
              [Request("update", a, db.User[a].role,
                       IF atLogin THEN NoId ELSE a) EXCEPT !.blog = b]))

UpdateWriteStep(s) ==
    /\ req[s].op = "update"
    /\ req[s].pc = "update"
    /\ Commit(s, UpdateWrite(db, req[s]))

ViewNext ==
    \E s \in Slots :
        \/ DetailStart(s)
        \/ DetailIncStep(s)
        \/ UpdateStart(s)
        \/ UpdateWriteStep(s)
        \/ FavoriteStart(s)
        \/ FavoriteFindExistingStep(s)
        \/ FavoriteSaveBlogStep(s)
        \/ FavoriteSaveFavoriteStep(s)
        \/ UnfavoriteStart(s)
        \/ UnfavoriteFindBlogStep(s)
        \/ UnfavoriteSaveBlogStep(s)

ViewSpec == Init /\ [][ViewNext]_vars

----------------------------------------------------------------------------
(* The email login served together with the admin's status changes.        *)

LoginStart(s) ==
    /\ Free(s)
    /\ \E c \in Codes, e \in {EmailOf(x) : x \in Codes} :
          Commit(s, LoginFindVerification(db, Request("login", e, "user", c)))

LoginFindUserStep(s) ==
    /\ req[s].op = "login"
    /\ req[s].pc = "findUser"
    /\ Commit(s, LoginFindUser(db, req[s]))

LoginCreateUserStep(s) ==
    /\ req[s].op = "login"
    /\ req[s].pc = "createUser"
    /\ Commit(s, LoginCreateUser(db, req[s]))

LoginMarkUsedStep(s) ==
    /\ req[s].op = "login"
    /\ req[s].pc = "markUsed"
    /\ Commit(s, LoginMarkUsed(db, req[s]))

LoginSaveUserStep(s) ==
    /\ req[s].op = "login"
    /\ req[s].pc = "saveUser"
    /\ Commit(s, LoginSaveUser(db, req[s]))

StatusStart(s) ==
    /\ Free(s)
    /\ \E a \in Tokens, b \in UserIds, isActive \in BOOLEAN :
          Commit(s, RequireAdmin(db,
              [Request("status", a, db.User[a].role, b)
                  EXCEPT !.isActive = isActive],
              "update"))

StatusUpdateStep(s) ==
    /\ req[s].op = "status"
    /\ req[s].pc = "update"
    /\ Commit(s, StatusUpdate(db, req[s]))

AuthNext ==
    \E s \in Slots :
        \/ LoginStart(s)
        \/ LoginFindUserStep(s)
        \/ LoginCreateUserStep(s)
        \/ LoginMarkUsedStep(s)
        \/ LoginSaveUserStep(s)
        \/ StatusStart(s)
        \/ StatusUpdateStep(s)

AuthSpec == Init /\ [][AuthNext]_vars

----------------------------------------------------------------------------
(* The follow route served together with the admin routes on users.        *)

DeleteUserStart(s) ==
    /\ Free(s)
    /\ \E a \in Tokens, b \in UserIds :
          Commit(s, RequireAdmin(db, Request("deleteUser", a, db.User[a].role, b),
                                 "delete"))

DeleteUserStep(s) ==
    /\ req[s].op = "deleteUser"
    /\ req[s].pc = "delete"
    /\ Commit(s, DeleteUser(db, req[s]))

RestoreRequest(s) ==
    /\ Free(s)
    /\ \E a \in Tokens, b \in UserIds :
          Commit(s, Restore(db, Request("restore", a, db.User[a].role, b)))

PermanentStart(s) ==
    /\ Free(s)
    /\ \E a \in Tokens, b \in UserIds :
          Commit(s, PermanentFind(db, Request("permanent", a, db.User[a].role, b)))

PermanentDeleteStep(s) ==
    /\ req[s].op = "permanent"
    /\ req[s].pc = "delete"
    /\ Commit(s, PermanentDelete(db, req[s]))

AccountNext ==
    \E s \in Slots :
        \/ FollowStart(s)
        \/ FollowFindCurrentStep(s)
        \/ FollowWriteFollowingStep(s)
        \/ FollowWriteFollowersStep(s)
        \/ StatusStart(s)
        \/ StatusUpdateStep(s)
        \/ DeleteUserStart(s)
        \/ DeleteUserStep(s)
        \/ RestoreRequest(s)
        \/ PermanentStart(s)
        \/ PermanentDeleteStep(s)

AccountSpec == Init /\ [][AccountNext]_vars

----------------------------------------------------------------------------
(* Properties of the follow relation (RelSpec).                            *)

Following(d, a, b) == Exists(d.User, a) /\ Includes(d.User[a].following, b)

Follower(d, b, a) == Exists(d.User, b) /\ Includes(d.User[b].followers, a)

Done(s, op, status, msg) ==
    /\ req[s].op = op
    /\ req[s].pc = "done"
    /\ req[s].status = status
    /\ req[s].msg = msg

\* No request is between its two writes.
NoneBetweenWrites == \A s \in Slots : req[s].pc # "writeFollowers"

Symmetric(d) ==
    \A a \in DOMAIN d.User, b \in DOMAIN d.User :
        Follower(d, b, a) <=> Following(d, a, b)

\* C1: for distinct existing users A and B with B not in A.following, a
\* Follow(A,B) handler run from any reachable state answers 200 and leaves
\* B in A.following and A in B.followers.
C1_FollowAddsBothSides ==
    \A a \in DOMAIN db.User, b \in DOMAIN db.User :
        (a # b /\ ~Following(db, a, b)) =>
            LET o == Follow(db, a, b)
            IN /\ o.r.status = 200
               /\ Following(o.db, a, b)
               /\ Follower(o.db, b, a)

C1_Witness ==
    \E s \in Slots :
        /\ Done(s, "follow", 200, "ok")
        /\ Following(db, req[s].actor, req[s].arg)
        /\ Follower(db, req[s].arg, req[s].actor)

\* C2 (as claimed): in every state in which no Follow/Unfollow request is
\* between its two writes, A is in B.followers iff B is in A.following,
\* whatever the interleaving of the requests.
C2_SymmetricAnyInterleaving == NoneBetweenWrites => Symmetric(db)

\* C2 (amended): a Follow or Unfollow that runs with no other request
\* between its database calls keeps the relation symmetric: from every
\* symmetric state it ends in a symmetric state.
C2_SymmetricWhenAlone ==
    Symmetric(db) =>
        \A a \in DOMAIN db.User, b \in UserIds \cup {NoId} :
            /\ Symmetric(Follow(db, a, b).db)
            /\ Symmetric(Unfollow(db, a, b).db)

C2_Witness ==
    /\ NoneBetweenWrites
    /\ Symmetric(db)
    /\ \E s \in Slots : Done(s, "unfollow", 200, "ok")
    /\ \E t \in Slots : Done(t, "follow", 200, "ok")
    /\ \E a \in DOMAIN db.User, b \in DOMAIN db.User : Following(db, a, b)

\* C3 (as claimed): from any state where A does not follow B, Follow(A,B)
\* then Unfollow(A,B), both successful and run back to back, leave every
\* following and followers list as before the Follow.
C3_RoundTrip ==
    \A a \in DOMAIN db.User, b \in DOMAIN db.User :
        (a # b /\ ~Following(db, a, b)) =>
            LET f == Follow(db, a, b)
                u == Unfollow(f.db, a, b)
            IN (f.r.status = 200 /\ u.r.status = 200) => u.db = db

\* C3 (amended): the round trip restores every list when, before the
\* Follow, B is not in A.following and A is not in B.followers.
C3_RoundTripFromCleanPair ==
    \A a \in DOMAIN db.User, b \in DOMAIN db.User :
        (a # b /\ ~Following(db, a, b) /\ ~Follower(db, b, a)) =>
            LET f == Follow(db, a, b)
                u == Unfollow(f.db, a, b)
            IN /\ f.r.status = 200
               /\ u.r.status = 200
               /\ u.db = db

\* A clean pair (u1,u2) next to a non-empty list, after a real unfollow.
C3_Witness ==
    /\ \E s \in Slots : Done(s, "unfollow", 200, "ok") /\ req[s].actor = "u1"
    /\ ~Following(db, "u1", "u2")
    /\ ~Follower(db, "u2", "u1")
    /\ Following(db, "u2", "u1")

\* C4: Follow(A,A) answers 400 and changes no list, and no user is in its
\* own following or followers list.
C4_NoSelfFollow ==
    \A a \in DOMAIN db.User :
        /\ Follow(db, a, a).r.status = 400
        /\ Follow(db, a, a).db = db
        /\ ~Following(db, a, a)
        /\ ~Follower(db, a, a)

C4_Witness ==
    \E s \in Slots :
        /\ Done(s, "follow", 400, "self")
        /\ req[s].actor = req[s].arg
        /\ \E a \in DOMAIN db.User, b \in DOMAIN db.User : Following(db, a, b)

AllEmpty(d) ==
    \A u \in DOMAIN d.User :
        d.User[u].following = <<>> /\ d.User[u].followers = <<>>

\* C5: when B is in A.following, Follow(A,B) answers 400 already-following
\* and changes no list; from the empty relation, Follow(U1,U2) twice gives
\* 200 then 400 and info reports followingCount 1 for U1 and
\* followersCount 1 for U2.
C5_RepeatedFollow ==
    \A a \in DOMAIN db.User, b \in DOMAIN db.User :
        /\ (a # b /\ Following(db, a, b)) =>
              LET o == Follow(db, a, b)
              IN o.r.status = 400 /\ o.r.msg = "already" /\ o.db = db
        /\ (a # b /\ AllEmpty(db)) =>
              LET once == Follow(db, a, b)
                  twice == Follow(once.db, a, b)
              IN /\ once.r.status = 200
                 /\ twice.r.status = 400
                 /\ twice.r.msg = "already"
                 /\ GetInfo(twice.db, a).r.data.followingCount = 1
                 /\ GetInfo(twice.db, b).r.data.followersCount = 1

C5_Witness ==
    \E s \in Slots, t \in Slots :
        /\ Done(s, "follow", 400, "already")
        /\ Done(t, "info", 200, "ok")
        /\ req[t].actor = req[s].actor
        /\ req[t].data.followingCount = 1

\* C6: B occurs at most once in A.following and A at most once in
\* B.followers, also after two concurrent Follow(A,B) requests.
C6_ListsAreSets ==
    \A a \in DOMAIN db.User, b \in DOMAIN db.User :
        /\ Occurrences(db.User[a].following, b) <= 1
        /\ Occurrences(db.User[b].followers, a) <= 1

\* C7: Unfollow(A,B) answers 400 and changes no list when B does not exist
\* or is not in A.following; otherwise it answers 200 and B is no longer in
\* A.following nor A in B.followers.
C7_Unfollow ==
    \A a \in DOMAIN db.User, b \in UserIds :
        LET o == Unfollow(db, a, b)
        IN IF ~Exists(db.User, b) \/ ~Following(db, a, b)
           THEN o.r.status = 400 /\ o.db = db
           ELSE /\ o.r.status = 200
                /\ ~Following(o.db, a, b)
                /\ ~Follower(o.db, b, a)

C7_Witness ==
    /\ \E s \in Slots : /\ Done(s, "unfollow", 200, "ok")
                        /\ ~Following(db, req[s].actor, req[s].arg)
                        /\ ~Follower(db, req[s].arg, req[s].actor)
    /\ \E t \in Slots : Done(t, "unfollow", 400, "notfound")

----------------------------------------------------------------------------
(* Properties of the comment threads (CommentSpec).                        *)

Likes(d, c) == Elements(d.Comment[c].likes)

\* C8: likeCount of every comment equals the number of elements of its
\* likes, also after ToggleLike requests of different users ran together.
C8_LikeCountIsLength ==
    \A c \in DOMAIN db.Comment :
        db.Comment[c].likeCount = Len(db.Comment[c].likes)

\* C9: two ToggleLike(U,C) calls run back to back answer opposite isLiked
\* values, the first being true exactly when U was not in C.likes, and
\* leave the members of C.likes and C.likeCount as before the first call.
C9_ToggleTwice ==
    \A c \in DOMAIN db.Comment, u \in DOMAIN db.User :
        LET first == ToggleLike(db, u, c)
            second == ToggleLike(first.db, u, c)
        IN (first.r.status = 200 /\ second.r.status = 200) =>
              /\ first.r.data.isLiked = (u \notin Likes(db, c))
              /\ second.r.data.isLiked = ~first.r.data.isLiked
              /\ Likes(second.db, c) = Likes(db, c)
              /\ second.db.Comment[c].likeCount = db.Comment[c].likeCount

Replies(d, c) == {x \in DOMAIN d.Comment : d.Comment[x].parentId = c}

Removed(d, e) == DOMAIN d.Comment \ DOMAIN e.Comment

\* C10: a successful DeleteComment of a top-level comment removes that
\* comment and the comments whose parentId is its id, and nothing else; a
\* successful DeleteComment of a reply removes that one comment only; the
\* comments that stay are unchanged.
C10_DeleteCascade ==
    \A c \in DOMAIN db.Comment, a \in DOMAIN db.User :
        LET o == DeleteComment(db, a, db.User[a].role, c)
        IN o.r.status = 200 =>
              /\ Removed(db, o.db) =
                    IF db.Comment[c].parentId = 0
                    THEN {c} \cup Replies(db, c)
                    ELSE {c}
              /\ \A x \in DOMAIN o.db.Comment : o.db.Comment[x] = db.Comment[x]

\* A top-level comment was deleted with its reply while another stays.
C10_Witness ==
    /\ \E s \in Slots : Done(s, "delete", 200, "ok") /\ req[s].cid = 1
    /\ db.nextId > 2
    /\ DOMAIN db.Comment = {}

----------------------------------------------------------------------------
(* Authorization and notifications of the comment routes.                  *)

\* A handler run of POST /create, /reply and /like with an acceptable text
\* and the given outcome of its Notification.create.
CreateComment(d, a, b, ok) ==
    Run(d, [Request("create", a, "user", NoId)
               EXCEPT !.blog = b, !.content = Acceptable, !.storeOk = ok])

CreateReply(d, a, c, to, ok) ==
    Run(d, [Request("reply", a, "user", NoId)
               EXCEPT !.cid = c, !.blog = "b1", !.replyTo = to,
                      !.content = Acceptable, !.storeOk = ok])

ToggleLikeWith(d, a, c, ok) ==
    Run(d, [Request("like", a, "user", NoId) EXCEPT !.cid = c, !.storeOk = ok])

Author(d, c) == d.Comment[c].user

\* The notifications of a type that relate to comment c.
About(d, type, c) ==
    {n \in BagToSet(d.Notification) : n.type = type /\ n.relatedComment = c}

\* C11: DeleteComment of an existing comment answers 200 when the actor is
\* its author or an admin, and 403 with every comment unchanged for any
\* other actor; of a missing comment it answers 404.
C11_DeleteAuthorization ==
    \A c \in CommentIds, a \in DOMAIN db.User :
        LET o == DeleteComment(db, a, db.User[a].role, c)
        IN IF ~Exists(db.Comment, c)
           THEN o.r.status = 404 /\ o.db = db
           ELSE IF Author(db, c) = a \/ db.User[a].role = "admin"
           THEN o.r.status = 200
           ELSE o.r.status = 403 /\ o.db = db

\* C12: a successful CreateComment by a user other than the blog's owner
\* adds exactly one notification {comment, recipient owner, sender user}
\* for the new comment; the owner's own comment adds none.
C12_CommentNotification ==
    \A a \in DOMAIN db.User, b \in DOMAIN db.Blog :
        LET o == CreateComment(db, a, b, TRUE)
            n == NewNotification("comment", db.Blog[b].user, a, db.nextId)
        IN /\ o.r.status = 200
           /\ o.db.Notification =
                 IF a # db.Blog[b].user
                 THEN db.Notification (+) SetToBag({n})
                 ELSE db.Notification

\* A visitor's comment with its notification next to the owner's own
\* comment without one.
C12_Witness ==
    \E s \in Slots, t \in Slots :
        /\ Done(s, "create", 200, "ok")
        /\ req[s].actor # OwnerOf("b1")
        /\ About(db, "comment", req[s].data.id) =
              {NewNotification("comment", OwnerOf("b1"), req[s].actor,
                               req[s].data.id)}
        /\ Done(t, "create", 200, "ok")
        /\ req[t].actor = OwnerOf("b1")
        /\ About(db, "comment", req[t].data.id) = {}

\* C13: ToggleLike adds one notification {like, recipient author, sender
\* liker} exactly when it adds the user to likes, the liker is not the
\* author and the store accepts it; in every other case, the removal of a
\* like among them, the notifications stay as they are.
C13_LikeNotification ==
    \A c \in DOMAIN db.Comment, u \in DOMAIN db.User, ok \in BOOLEAN :
        LET o == ToggleLikeWith(db, u, c, ok)
            n == NewNotification("like", Author(db, c), u, c)
            adds == ~Includes(db.Comment[c].likes, u)
        IN o.db.Notification =
              IF adds /\ u # Author(db, c) /\ ok
              THEN db.Notification (+) SetToBag({n})
              ELSE db.Notification

\* A like was notified once and its removal added nothing.
C13_Witness ==
    \E s \in Slots :
        /\ Done(s, "like", 200, "ok")
        /\ ~req[s].data.isLiked
        /\ Exists(db.Comment, req[s].cid)
        /\ req[s].actor # Author(db, req[s].cid)
        /\ ~Includes(db.Comment[req[s].cid].likes, req[s].actor)
        /\ CopiesIn(NewNotification("like", Author(db, req[s].cid),
                                    req[s].actor, req[s].cid),
                    db.Notification) = 1

\* C14: when the store rejects the Notification.create of a CreateComment,
\* CreateReply or ToggleLike, the request still answers 200, the new
\* comment, the new reply or the added like is stored, no notification is
\* added, and the error is logged once when the block was entered.
C14_NotificationFailure ==
    /\ \A a \in DOMAIN db.User, b \in DOMAIN db.Blog :
          LET o == CreateComment(db, a, b, FALSE)
          IN /\ o.r.status = 200
             /\ o.db.Comment =
                   db.Comment @@ (db.nextId :> NewComment(a, b, 0, NoId))
             /\ o.db.Notification = db.Notification
             /\ o.db.errors = db.errors + (IF a # db.Blog[b].user THEN 1 ELSE 0)
    /\ \A a \in DOMAIN db.User, c \in DOMAIN db.Comment :
          LET o == CreateReply(db, a, c, NoId, FALSE)
          IN /\ o.r.status = 200
             /\ DOMAIN o.db.Comment = DOMAIN db.Comment \cup {db.nextId}
             /\ o.db.Comment[db.nextId].user = a
             /\ o.db.Notification = db.Notification
             /\ o.db.errors = db.errors + (IF a # Author(db, c) THEN 1 ELSE 0)
    /\ \A a \in DOMAIN db.User, c \in DOMAIN db.Comment :
          ~Includes(db.Comment[c].likes, a) =>
              LET o == ToggleLikeWith(db, a, c, FALSE)
              IN /\ o.r.status = 200
                 /\ o.r.data.isLiked
                 /\ o.db.Comment[c].likes = Push(db.Comment[c].likes, a)
                 /\ o.db.Notification = db.Notification
                 /\ o.db.errors =
                       db.errors + (IF a # Author(db, c) THEN 1 ELSE 0)

\* A comment and a like are stored and answered 200 although the
\* notification of the like was rejected.
C14_Witness ==
    \E s \in Slots :
        /\ Done(s, "like", 200, "ok")
        /\ req[s].data.isLiked
        /\ Exists(db.Comment, req[s].cid)
        /\ req[s].actor # Author(db, req[s].cid)
        /\ Includes(db.Comment[req[s].cid].likes, req[s].actor)
        /\ About(db, "like", req[s].cid) = {}
        /\ db.errors > 0

----------------------------------------------------------------------------
(* Threads (ThreadSpec).                                                   *)

\* Every reply hangs under a stored top-level comment of its own blog.
Depth2(d) ==
    \A c \in DOMAIN d.Comment :
        d.Comment[c].parentId # 0 =>
            /\ Exists(d.Comment, d.Comment[c].parentId)
            /\ d.Comment[d.Comment[c].parentId].parentId = 0
            /\ d.Comment[d.Comment[c].parentId].blog = d.Comment[c].blog

\* C19: after any interleaving of CreateComment and CreateReply requests
\* every reply hangs under a top-level comment of its blog, and one more
\* CreateReply on any comment P stores parentId = P.parentId when P is a
\* reply and P's id when P is top-level, which keeps it so.
C19_ThreadDepth ==
    /\ Depth2(db)
    /\ \A a \in DOMAIN db.User, p \in DOMAIN db.Comment,
          to \in UserIds \cup {NoId} :
          LET o == CreateReply(db, a, p, to, TRUE)
          IN /\ o.r.status = 200
             /\ o.db.Comment[db.nextId].parentId =
                   IF db.Comment[p].parentId # 0
                   THEN db.Comment[p].parentId
                   ELSE p
             /\ o.db.Comment[db.nextId].blog = db.Comment[p].blog
             /\ Depth2(o.db)

\* A reply is stored under a top-level comment, and a reply to that reply
\* is stored under the same top-level comment.
C19_Witness ==
    \E s \in Slots, c \in DOMAIN db.Comment :
        /\ Done(s, "reply", 200, "ok")
        /\ req[s].data.id = c
        /\ db.Comment[c].parentId # 0
        /\ db.Comment[c].parentId # c
        /\ CreateReply(db, "u1", c, NoId, TRUE).db.Comment[db.nextId].parentId
              = db.Comment[c].parentId

\* C20: CreateReply stores as replyTo the replyTo of the body, or the
\* parent comment's author when the body has none, and adds exactly one
\* notification {reply, recipient that user, sender replier} for the new
\* reply, or none when that user is the replier.
C20_ReplyAddressee ==
    \A a \in DOMAIN db.User, p \in DOMAIN db.Comment,
       to \in UserIds \cup {NoId} :
        LET o == CreateReply(db, a, p, to, TRUE)
            addressee == IF to # NoId THEN to ELSE Author(db, p)
            n == NewNotification("reply", addressee, a, db.nextId)
        IN /\ o.r.status = 200
           /\ o.db.Comment[db.nextId].replyTo = addressee
           /\ o.db.Comment[db.nextId].user = a
           /\ o.db.Notification =
                 IF addressee # a
                 THEN db.Notification (+) SetToBag({n})
                 ELSE db.Notification

\* A stored reply addressed to a user who is neither the parent's author
\* nor the replier, with its one notification.
C20_Witness ==
    \E s \in Slots, c \in DOMAIN db.Comment :
        /\ Done(s, "reply", 200, "ok")
        /\ req[s].data.id = c
        /\ db.Comment[c].parentId # 0
        /\ Exists(db.Comment, db.Comment[c].parentId)
        /\ db.Comment[c].replyTo # Author(db, db.Comment[c].parentId)
        /\ db.Comment[c].replyTo # Author(db, c)
        /\ About(db, "reply", c) =
              {NewNotification("reply", db.Comment[c].replyTo, Author(db, c), c)}

----------------------------------------------------------------------------
(* Properties of the blacklist (BlockSpec).                                *)

AtMostOnePerPair(d) ==
    \A b \in BagToSet(d.Blacklist) : CopiesIn(b, d.Blacklist) <= 1

\* C15: Block(a, b), through the route and through the blockUser helper,
\* fails and creates no record when a = b or a record (a, b) exists, and
\* otherwise creates one record (a, b); no ordered pair ever has more than
\* one record.
C15_Block ==
    /\ AtMostOnePerPair(db)
    /\ \A a \in DOMAIN db.User, b \in DOMAIN db.User :
          LET o == Block(db, a, b)
              h == blockUser(db, a, b)
              added == db.Blacklist (+) SetToBag({BlacklistRecord(a, b)})
          IN IF a = b \/ isBlocked(db, a, b)
             THEN /\ o.r.status # 200 /\ o.db = db
                  /\ h.r.status # 200 /\ h.db = db
             ELSE /\ o.r.status = 200 /\ o.db.Blacklist = added
                  /\ h.r.status = 200 /\ h.db.Blacklist = added

\* C16: Unblock(a, b), through the route and through the unblockUser
\* helper, answers not-found and changes nothing when no record (a, b)
\* exists, whatever records of (b, a) exist; otherwise it removes exactly
\* the record (a, b); a Block(a, b) followed by Unblock(a, b) restores the
\* blacklist.
C16_Unblock ==
    \A a \in DOMAIN db.User, b \in UserIds :
        LET o == Unblock(db, a, b)
            h == unblockUser(db, a, b)
            removed == db.Blacklist (-) SetToBag({BlacklistRecord(a, b)})
        IN /\ IF ~isBlocked(db, a, b)
              THEN /\ o.r.status = 404 /\ o.db = db
                   /\ h.r.status = 404 /\ h.db = db
              ELSE /\ o.r.status = 200 /\ o.db.Blacklist = removed
                   /\ h.r.status = 200 /\ h.db.Blacklist = removed
           /\ (a # b /\ Exists(db.User, b) /\ ~isBlocked(db, a, b)) =>
                 /\ Block(db, a, b).r.status = 200
                 /\ Unblock(Block(db, a, b).db, a, b).r.status = 200
                 /\ Unblock(Block(db, a, b).db, a, b).db = db
                 /\ unblockUser(blockUser(db, a, b).db, a, b).db = db

\* An unblock answered 404 while the reverse record stays, next to one
\* that removed its record.
C16_Witness ==
    \E s \in Slots, t \in Slots :
        /\ Done(s, "unblock", 404, "notfound")
        /\ isBlocked(db, req[s].arg, req[s].actor)
        /\ ~isBlocked(db, req[s].actor, req[s].arg)
        /\ Done(t, "unblock", 200, "ok")
        /\ ~isBlocked(db, req[t].actor, req[t].arg)

\* C17: hasBlacklistRelation(a, b) is isBlocked(a, b) or isBlocked(b, a),
\* so it is symmetric in a and b; isBlocked(a, b) is true exactly when a
\* record with blocker a and blocked b is stored; GET /check/:id reports
\* hasBlacklistRelation(current user, target).
C17_BlockRelation ==
    \A a \in UserIds, b \in UserIds :
        /\ hasBlacklistRelation(db, a, b)
              = (isBlocked(db, a, b) \/ isBlocked(db, b, a))
        /\ hasBlacklistRelation(db, a, b) = hasBlacklistRelation(db, b, a)
        /\ isBlocked(db, a, b) = BagIn(BlacklistRecord(a, b), db.Blacklist)
        /\ CheckBlocked(db, a, b).r.data.isBlocked
              = (isBlocked(db, a, b) \/ isBlocked(db, b, a))

\* A check reported a relation that exists only from the target to the
\* current user.
C17_Witness ==
    \E s \in Slots :
        /\ Done(s, "check", 200, "ok")
        /\ req[s].data.isBlocked
        /\ ~isBlocked(db, req[s].actor, req[s].arg)
        /\ isBlocked(db, req[s].arg, req[s].actor)

----------------------------------------------------------------------------
(* Properties of the favorites (FavoriteSpec).                             *)

\* The Favorite records that reference a blog.
FavoritesOf(d, b) ==
    BagCardinality([f \in {g \in BagToSet(d.Favorite) : g.blog = b}
                       |-> d.Favorite[f]])

NoFavoriteInFlight ==
    \A s \in Slots : req[s].op \in {"favorite", "unfavorite"} => req[s].pc = "done"

\* C18: in every state with no favorite or unfavorite request in flight,
\* favoriteCount of every blog is the number of Favorite records that
\* reference it, whatever the interleaving of the requests before and also
\* when a Favorite insert failed after the counter was written.
C18_FavoriteCount ==
    NoFavoriteInFlight =>
        \A b \in DOMAIN db.Blog : db.Blog[b].favoriteCount = FavoritesOf(db, b)

----------------------------------------------------------------------------
(* Properties of the content filter (FilterSpec).                          *)

Fold(c) == IF c = "A" THEN "a" ELSE c

\* The term is a substring of the text, letter case apart.
Occurs(term, text) ==
    \E i \in 1..Len(text) :
        /\ i + Len(term) - 1 <= Len(text)
        /\ \A j \in 1..Len(term) : Fold(text[i + j - 1]) = Fold(term[j])

\* The terms a check applies.
BannedTerms(strictMode) ==
    Elements(sensitiveWords)
        \cup (IF strictMode THEN Elements(politicalSensitiveWords) ELSE {})

OccurringTerms(text, strictMode) ==
    {w \in BannedTerms(strictMode) : Occurs(w, text)}

\* C21: a checkSensitiveContent call returns isValid exactly when
\* foundWords is empty, and foundWords lists, once each, exactly the terms
\* of the base list, and with strictMode of the stricter list, that occur
\* in the text letter case apart; a text whose only term is '杀死' gives
\* isValid false and foundWords ['杀死'].
C21_CheckSensitiveContent ==
    \A s \in Slots :
        Done(s, "checkSensitiveContent", 0, "") =>
            LET c == req[s].call
            IN /\ c.isValid <=> c.foundWords = <<>>
               /\ Elements(c.foundWords) = OccurringTerms(c.text, c.strictMode)
               /\ Len(c.foundWords) = Cardinality(Elements(c.foundWords))
               /\ c.text = <<"A", "sha", "si">> =>
                     /\ ~c.isValid
                     /\ c.foundWords = << <<"sha", "si">> >>

\* C21 witness: a non-strict check of a text with a term of the stricter
\* list and no base term has returned valid with no found words.
C21_Witness ==
    \E s \in Slots :
        /\ Done(s, "checkSensitiveContent", 0, "")
        /\ req[s].call.text = <<"ge", "ming", "A">>
        /\ ~req[s].call.strictMode
        /\ req[s].call.isValid
        /\ req[s].call.foundWords = <<>>

CreateCommentWith(d, a, b, content) ==
    Run(d, [Request("create", a, "user", NoId)
               EXCEPT !.blog = b, !.content = content])

CreateReplyWith(d, a, c, content) ==
    Run(d, [Request("reply", a, "user", NoId)
               EXCEPT !.cid = c, !.blog = "b1", !.content = content])

\* The store with one top-level comment of u1 on b1.
WithComment(d) == Insert(d, NewComment("u1", "b1", 0, NoId))

\* C22: a validateContent call answers for blank content first (rejected as
\* empty unless allowEmpty), then for content outside the length bounds,
\* and applies the moderation check only to the rest; a create or reply
\* request whose content validateContent rejects answers 400 and leaves
\* the store as it was.
C22_ValidationOrder ==
    \A s \in Slots :
        Done(s, "validateContent", 0, "") =>
            LET c == req[s].call
                blank == IsBlank(c.text)
                short == Len(c.text) < c.minLength
                long == Len(c.text) > c.maxLength
                banned == OccurringTerms(c.text, c.strictMode) # {}
                route == validateContent(c.text, CommentMinLength,
                                         CommentMaxLength, FALSE, TRUE)
                seeded == WithComment(db)
            IN /\ blank =>
                     /\ c.isValid = c.allowEmpty
                     /\ c.message = IF c.allowEmpty THEN "" ELSE "empty"
               /\ ~blank /\ short => ~c.isValid /\ c.message = "tooShort"
               /\ ~blank /\ ~short /\ long => ~c.isValid /\ c.message = "tooLong"
               /\ ~blank /\ ~short /\ ~long =>
                     /\ c.isValid = ~banned
                     /\ c.message = IF banned THEN "sensitive" ELSE "passed"
               /\ ~route.isValid =>
                     \A a \in DOMAIN db.User :
                        /\ CreateCommentWith(seeded, a, "b1", c.text).db = seeded
                        /\ CreateCommentWith(seeded, a, "b1", c.text).r.status = 400
                        /\ CreateReplyWith(seeded, a, 1, c.text).db = seeded
                        /\ CreateReplyWith(seeded, a, 1, c.text).r.status = 400

\* C22 witness: an over-long content with a banned term has been rejected
\* for its length.
C22_Witness ==
    \E s \in Slots :
        /\ Done(s, "validateContent", 0, "")
        /\ req[s].call.text = <<"sha", "si", "qu">>
        /\ req[s].call.maxLength = 2
        /\ req[s].call.message = "tooLong"

----------------------------------------------------------------------------
(* Properties of the follow and block relations together (SocialSpec).     *)

\* The store without its blacklist records.
Unblocked(d) == [d EXCEPT !.Blacklist = EmptyBag]

\* C23: from every reachable state, a Block or Unblock run leaves every
\* user's following and followers lists as they were, a Follow or Unfollow
\* run leaves the blacklist records as they were, and it answers and
\* updates the lists as it does from the same state without any blacklist
\* record.
C23_BlockFollowIndependent ==
    \A a \in DOMAIN db.User, b \in UserIds :
        /\ Block(db, a, b).db.User = db.User
        /\ Unblock(db, a, b).db.User = db.User
        /\ Follow(db, a, b).db.Blacklist = db.Blacklist
        /\ Unfollow(db, a, b).db.Blacklist = db.Blacklist
        /\ Follow(Unblocked(db), a, b).r = Follow(db, a, b).r
        /\ Follow(Unblocked(db), a, b).db.User = Follow(db, a, b).db.User
        /\ Unfollow(Unblocked(db), a, b).r = Unfollow(db, a, b).r
        /\ Unfollow(Unblocked(db), a, b).db.User = Unfollow(db, a, b).db.User

\* C23 witness: u1 has blocked u2 and has followed u2, both requests were
\* answered 200, and both the follow and the block are in the store.
C23_Witness ==
    /\ \E s \in Slots :
          Done(s, "block", 200, "ok") /\ req[s].actor = "u1" /\ req[s].arg = "u2"
    /\ \E s \in Slots :
          Done(s, "follow", 200, "ok") /\ req[s].actor = "u1" /\ req[s].arg = "u2"
    /\ Following(db, "u1", "u2")
    /\ Follower(db, "u2", "u1")
    /\ FindBlacklist(db, "u1", "u2")

\* The store with a top-level comment of u1 and a reply of u2 to it.
WithThread(d) == Insert(WithComment(d), NewComment("u2", "b1", 1, "u1"))

Rejected(o) == o.r.status \in {400, 403, 404}

\* A rejected run has left the store as it was.
Untouched(d, o) == Rejected(o) => o.db = d

\* C24: from every reachable state of the follow and block relations, with
\* a stored comment thread, every Follow, Unfollow, Block, Unblock, create,
\* reply, like or delete run that is answered 400, 403 or 404 leaves the
\* whole store as it was.
C24_RejectedBeforeWrite ==
    /\ \A a \in DOMAIN db.User, b \in UserIds \cup {NoId} :
          /\ Untouched(db, Follow(db, a, b))
          /\ Untouched(db, Unfollow(db, a, b))
          /\ Untouched(db, Block(db, a, b))
          /\ Untouched(db, Unblock(db, a, b))
    /\ \A d \in {WithThread(db)}, a \in DOMAIN db.User, c \in 0..3 :
          /\ \A content \in Contents :
                /\ Untouched(d, CreateReplyWith(d, a, c, content))
                /\ \A b \in BlogIds \cup {NoId} :
                      Untouched(d, CreateCommentWith(d, a, b, content))
          /\ Untouched(d, ToggleLike(d, a, c))
          /\ Untouched(d, DeleteComment(d, a, db.User[a].role, c))

\* C24 witness: a follow of a user already followed was answered 400, and
\* a block of a user already blocked was answered 400.
C24_Witness ==
    /\ \E s \in Slots : Done(s, "follow", 400, "already")
    /\ \E s \in Slots : Done(s, "block", 400, "already")
    /\ \E a \in DOMAIN db.User, b \in DOMAIN db.User :
          Following(db, a, b) /\ FindBlacklist(db, a, b)

----------------------------------------------------------------------------
(* Properties of the blog counters (ViewSpec).                             *)

\* C25: every step keeps each blog and changes its viewCount by exactly the
\* number of detail requests on that blog that the step completes with
\* 200: one for the counting step of a detail fetch, none for any step of
\* a favorite, unfavorite or update request.
C25_ViewCount ==
    [][\A b \in DOMAIN db.Blog :
          /\ b \in DOMAIN db'.Blog
          /\ db'.Blog[b].viewCount =
                db.Blog[b].viewCount
                  + Cardinality({s \in Counting(b) :
                                    /\ req'[s].pc = "done"
                                    /\ req'[s].status = 200})]_vars

\* C25 witness: two detail fetches of b1 that both loaded viewCount 0 have
\* completed, after a favorite and an update of b1, and viewCount is 2.
C25_Witness ==
    /\ \A s \in Slots :
          Done(s, "detail", 200, "ok") /\ req[s].data.viewCount = 1
    /\ db.Blog["b1"].viewCount = 2
    /\ db.Blog["b1"].favoriteCount = 1
    /\ db.Blog["b1"].title = "new"

----------------------------------------------------------------------------
(* Notifications of follow events (RelSpec).                               *)

\* The notifications of a type from a sender to a recipient.
Sent(d, type, sender, recipient) ==
    {n \in BagToSet(d.Notification) :
        n.type = type /\ n.sender = sender /\ n.recipient = recipient}

\* C26: a Follow(A,B) run that answers 200 leaves a notification of type
\* 'follow' from A to B in the store, or the logged failure of creating it.
C26_FollowNotifies ==
    \A a \in DOMAIN db.User, b \in DOMAIN db.User :
        LET o == Follow(db, a, b)
        IN o.r.status = 200 =>
              \/ Sent(o.db, "follow", a, b) # {}
              \/ o.db.errors > db.errors

----------------------------------------------------------------------------
(* Replies and deletions interleaved (CommentSpec).                        *)

\* C27: with no request in flight, every stored comment with a parentId
\* has as parent a stored top-level comment.
C27_NoOrphanReplies ==
    (\A s \in Slots : Free(s)) =>
        \A c \in DOMAIN db.Comment :
            db.Comment[c].parentId # 0 =>
                /\ Exists(db.Comment, db.Comment[c].parentId)
                /\ db.Comment[db.Comment[c].parentId].parentId = 0

----------------------------------------------------------------------------
(* The email login (AuthSpec).                                             *)

Login(d, e, c) == Run(d, Request("login", e, "user", c))

\* The login requests answered 200 for a code.
LoggedIn(c) == {s \in Slots : Done(s, "login", 200, "ok") /\ req[s].arg = c}

\* C28: no two email-login requests with the same code are both answered
\* 200, and a login run answered 403 for a disabled account leaves the
\* verification records as they were.
C28_SingleUseCode ==
    /\ \A c \in Codes : Cardinality(LoggedIn(c)) <= 1
    /\ \A c \in Codes :
          LET o == Login(db, EmailOf(c), c)
          IN o.r.status = 403 => o.db.Verification = db.Verification

----------------------------------------------------------------------------
(* The follow graph and the admin routes on users (AccountSpec).           *)

\* C29: every id in a stored user's following or followers list is the id
\* of a stored user.
C29_ReferentialIntegrity ==
    \A u \in DOMAIN db.User :
        \A x \in Elements(db.User[u].following)
                    \cup Elements(db.User[u].followers) :
            Exists(db.User, x)

Permanent(d, a, b) == Run(d, Request("permanent", a, "admin", b))

\* The step completes a permanent deletion request by removing its user.
Removes(s) ==
    /\ req[s].op = "permanent"
    /\ req[s].pc = "delete"
    /\ req'[s].pc = "done"
    /\ Exists(db.User, req[s].arg)
    /\ ~Exists(db'.User, req[s].arg)

\* C30: a permanent deletion run on a user with isActive = true answers 404
\* and leaves the store as it was, and every step in which a permanent
\* deletion request removes a user finds that user with isActive = false.
C30_PermanentOnlySoftDeleted ==
    /\ [](\A a \in DOMAIN db.User, b \in DOMAIN db.User :
            db.User[b].isActive =>
                /\ Permanent(db, a, b).r.status = 404
                /\ Permanent(db, a, b).db = db)
    /\ [][\A s \in Slots : Removes(s) => ~db.User[req[s].arg].isActive]_vars

====
